---- MODULE Spec2Model ----
(***************************************************************************)
(* Model of src/scrape.py: the semaphore-bounded download coroutine        *)
(* (bound_concurrency, download_file), the terminal line pool              *)
(* (ProgressBarManager) and the orchestrator (fetch, scrape).              *)
(*                                                                         *)
(* Scheduling is asyncio's: one thread, control changes hands only at an   *)
(* await.  Every action below is the code that runs from one await to the  *)
(* next.                                                                   *)
(*                                                                         *)
(* Strings are sequences of tokens, so that startswith, endswith,          *)
(* basename and header parsing are computed and not assumed.  An optional  *)
(* value is a sequence of length at most one: None is << >>.               *)
(***************************************************************************)
EXTENDS Integers, Sequences, FiniteSets, TLC

\* ------------------------------------------------------------------ bounds
\* Number of download_file calls launched together in Spec.
NumTasks == 2
\* Lines of the pool that SpecPool calls directly: pools of 1..MaxPool lines.
MaxPool == 3
\* Anchors with an href the listing page holds at most.
MaxLinks == 3
\* Bytes a response body holds at most, in chunks of any lengths; also the
\* largest declared Content-Length.
MaxBody == 2

Tasks == 1..NumTasks

\* ------------------------------------------------------------ Python values
None == << >>
Some(x) == << x >>
Val(o) == o[1]

\* ------------------------------------------------------- program constants
SUB_LINE_OFFSET == 1
SUB_INDENT == 4
DEFAULT_LINE_MAX == 10
\* @bound_concurrency(10)
CONCURRENCY == 10
\* len(BANNER.splitlines())
BANNER_LINES == 6
\* main(): main_coords=(0, len(BANNER.splitlines()) + 1)
MAIN_COORDS == << 0, BANNER_LINES + 1 >>
DEVNULL == << "devnull" >>

VARIABLES
    sem,        \* asyncio.Semaphore._value of bound_concurrency's sem
    size,       \* the size bound_concurrency was called with
    lines,      \* ProgressBarManager._lines: index -> None | Some(bar owner)
    task,       \* per download_file call: its position and locals
    fs,         \* the output folder: path -> bytes
    spc,        \* scrape(): its position
    page,       \* scrape(): the hrefs of the fetched page
    main_bar,   \* scrape(): coros_bar
    log,        \* LOGGER.error records
    last        \* the last direct call on the line pool (SpecPool)

vars == << sem, size, lines, task, fs, spc, page, main_bar, log, last >>

\* --------------------------------------------------------------- strings
URL == << "http:", "/", "/", "speedtest.tele2.net", "/" >>
OUTPUT_FOLDER == << "/", "tmp", "/" >>

startswith(s, tok) == Len(s) >= 1 /\ s[1] = tok
endswith(s, tok) == Len(s) >= 1 /\ s[Len(s)] = tok

\* os.path.basename: what follows the last "/"
basename(u) ==
    LET slashes == { i \in 1..Len(u) : u[i] = "/" }
        cut == IF slashes = {} THEN 0
               ELSE CHOOSE i \in slashes : \A j \in slashes : j <= i
    IN SubSeq(u, cut + 1, Len(u))

\* cgi.parse_header(line)[1]: the key=value parts after each ";"
parse_header_params(h) ==
    LET semis == { i \in 1..Len(h) : h[i] = ";" }
        stop(i) == IF \E j \in semis : j > i
                   THEN (CHOOSE j \in semis : j > i /\ \A k \in semis : k > i => j <= k) - 1
                   ELSE Len(h)
        part(i) == SubSeq(h, i + 1, stop(i))
    IN { << part(i)[1], SubSeq(part(i), 3, Len(part(i))) >> :
            i \in { k \in semis : Len(part(k)) >= 2 /\ part(k)[2] = "=" } }

\* dict.get(key) with the default None
params_get(params, key) ==
    IF \E p \in params : p[1] = key
    THEN Some((CHOOSE p \in params : p[1] = key)[2])
    ELSE None

\* int(content_length)
int(s) == CHOOSE n \in 0..MaxBody : ToString(n) = s

\* pathlib.Path(output_folder, filename)
Path(folder, filename) == folder \o filename

\* ------------------------------------------------------ ProgressBarManager
\* __init__: self._lines = [None,] * (lines if lines else DEFAULT_LINE_MAX)
NewLines(n) == [ i \in 0..((IF n # None THEN Val(n) ELSE DEFAULT_LINE_MAX) - 1) |-> None ]

\* __init__: self._sub_coords
sub_coords == << MAIN_COORDS[1] + SUB_INDENT, MAIN_COORDS[2] + SUB_LINE_OFFSET >>

get_sub_line(idx) == << sub_coords[1], sub_coords[2] + idx >>

\* (mutant) the highest free index instead of the lowest
alloc_slot_highest(ls) ==
    IF \E i \in DOMAIN ls : ls[i] = None
    THEN Some(CHOOSE i \in DOMAIN ls : ls[i] = None /\ \A j \in DOMAIN ls : ls[j] = None => j <= i)
    ELSE None

\* _alloc_slot: self._lines.index(None), or None when no line is free
alloc_slot(ls) ==
    IF \E i \in DOMAIN ls : ls[i] = None
    THEN Some(CHOOSE i \in DOMAIN ls : ls[i] = None /\ \A j \in DOMAIN ls : ls[j] = None => i <= j)
    ELSE None

\* self._lines[slot] = None, with Python's list indexing: a negative index
\* counts from the end, an index outside -len..len-1 raises IndexError.
free_slot(ls, slot) ==
    LET n == Cardinality(DOMAIN ls)
    IN IF slot >= n \/ slot < 0 - n
       THEN [ lines |-> ls, exc |-> Some("IndexError") ]
       ELSE [ lines |-> [ ls EXCEPT ![IF slot < 0 THEN slot + n ELSE slot] = None ],
              exc |-> None ]

\* (mutant) the allocated line is not recorded in _lines
sub_bar_enter_unmarked(ls, owner) ==
    LET slot == alloc_slot(ls)
    IN IF slot # None
       THEN [ lines |-> ls, slot |-> slot, fd |-> get_sub_line(Val(slot)) ]
       ELSE [ lines |-> ls, slot |-> None, fd |-> DEVNULL ]

\* install_sub_bar up to its yield, for the bar of `owner`
sub_bar_enter(ls, owner) ==
    LET slot == alloc_slot(ls)
    IN IF slot # None
       THEN [ lines |-> [ ls EXCEPT ![Val(slot)] = Some(owner) ],
              slot |-> slot, fd |-> get_sub_line(Val(slot)) ]
       ELSE [ lines |-> ls, slot |-> None, fd |-> DEVNULL ]

\* (mutant) a bar that got no line frees line 0 when it ends
sub_bar_exit_frees_first(ls, slot) ==
    free_slot(ls, IF slot # None THEN Val(slot) ELSE 0).lines

\* install_sub_bar after its yield: reached only when the with-body
\* returned normally (the generator has no try/finally).
sub_bar_exit(ls, slot) ==
    IF slot # None THEN free_slot(ls, Val(slot)).lines ELSE ls

\* ------------------------------------------------------- asyncio.Semaphore
\* (mutant) the limiter never reports itself exhausted
sem_locked_never(v) == v < 0

\* (mutant) the semaphore holds callers back while one ticket is still left
sem_locked_at_one(v) == v <= 1

\* Semaphore.locked(): no ticket is left
sem_locked(v) == v = 0
\* Semaphore.acquire() once it may proceed
sem_acquire(v) == v - 1
\* Semaphore.release()
sem_release(v) == v + 1

\* ------------------------------------------------------------- the bodies
\* byte j of the body served to call t
Byte(t, j) == << t, j >>
\* a byte no write produced: the gap left by a write past the end of a file
HOLE == << 0, 0 >>

RECURSIVE Sum(_)
Sum(s) == IF s = << >> THEN 0 ELSE s[1] + Sum(Tail(s))

\* the bytes of the chunk of length n that follows `before` received bytes
ChunkBytes(t, before, n) == [ i \in 1..n |-> Byte(t, before + i) ]

\* the first n bytes of the body served to call t
BodyPrefix(t, n) == [ i \in 1..n |-> Byte(t, i) ]

\* (mutant) every write replaces the file, as a file reopened per chunk would
file_write_replacing(content, pos, bytes) == bytes

\* (mutant) every write lands at the start of the file, as a handle whose
\* offset never advances would
file_write_at_start(content, pos, bytes) ==
    [ i \in 1..(IF Len(content) > Len(bytes) THEN Len(content) ELSE Len(bytes)) |->
        IF i <= Len(bytes) THEN bytes[i] ELSE content[i] ]

\* file.write(chunk) on a handle at offset pos
file_write(content, pos, bytes) ==
    LET end == pos + Len(bytes)
        n == IF Len(content) > end THEN Len(content) ELSE end
    IN [ i \in 1..n |-> IF i > pos /\ i <= end THEN bytes[i - pos]
                         ELSE IF i <= Len(content) THEN content[i] ELSE HOLE ]

\* open(path, "wb"): the file is created, or truncated when it exists
file_open(files, path) ==
    [ p \in (DOMAIN files) \cup { path } |-> IF p = path THEN << >> ELSE files[p] ]

\* ------------------------------------------------------------ progressbar
\* ProgressBar.update(value): a value outside 0..maxval raises ValueError and
\* leaves currval as it was.
bar_update(maxval, currval, value) ==
    IF value < 0 \/ value > maxval
    THEN [ currval |-> currval, exc |-> Some("ValueError") ]
    ELSE [ currval |-> value, exc |-> None ]

\* ProgressBar.finish(): the bar is drawn at its maximum when that is known
bar_finish(maxval, currval) == IF maxval # None THEN Val(maxval) ELSE currval

\* ---------------------------------------------------------- download_file
\* the filename download_file resolves for a response (lines 117-128)
resolve_filename(url, content_dispo) ==
    IF content_dispo # None
    THEN params_get(parse_header_params(Val(content_dispo)), "filename")
    ELSE Some(basename(url))

\* file_size = int(content_length) if content_length else None (line 131)
resolve_file_size(content_length) ==
    IF content_length # None /\ Val(content_length) # ""
    THEN Some(int(Val(content_length)))
    ELSE None

\* `if file_size:` (line 143)
size_known(file_size) == file_size # None /\ Val(file_size) # 0

\* the value handed to chunks_bar.update (line 145)
update_arg(currval, chunk_len) == currval + chunk_len

NewTask(u, pc0) ==
    [ pc |-> pc0, url |-> u, dispo |-> None, filename |-> None, file_size |-> None,
      slot |-> None, fd |-> None, bar |-> "none", currval |-> 0, upd |-> None,
      recv |-> << >>, pos |-> 0, exc |-> None ]

\* the url call t downloads in Spec: one file per call, the first the kind of
\* file scrape selects, the others small files
TaskUrl(t) == URL \o << (IF t = 1 THEN "100MB" ELSE "1MB"), "-", ToString(t), ".zip" >>

\* What a server may answer.  A 100MB file is served in every way: with or
\* without either header, the body in chunks of any lengths up to MaxBody
\* bytes.  Any other file is served plainly: no Content-Disposition, no
\* Content-Length, a body of at most one chunk of one byte.  Every request,
\* open, read and write may fail for either kind.
Plain(u) == ~ startswith(basename(u), "100MB")
\* the name the server gives the resource at url u
ServerName(u) == << "dl-" >> \o basename(u)
Dispositions(u) ==
    IF Plain(u) THEN { None }
    ELSE { None, Some(<< "attachment" >>),
           Some(<< "attachment", ";", "filename", "=" >> \o ServerName(u)) }
ContentLengths(u) ==
    IF Plain(u) THEN { None }
    ELSE { None } \cup { Some(ToString(n)) : n \in 0..MaxBody }
\* the lengths the next chunk may have after `got` bytes of the body
ChunkLens(u, got) == IF Plain(u) THEN 1..(1 - got) ELSE 1..(MaxBody - got)

Terminal == { "Completed", "Failed", "Raised" }

\* wrapper: `async with sem` entered, func called up to `await session.get(url)`
enter(t) ==
    /\ sem' = sem_acquire(sem)
    /\ task' = [ task EXCEPT ![t] = NewTask(task[t].url, "Getting") ]

\* a waiting or not yet scheduled call gets the semaphore
Acquire(t) ==
    /\ task[t].pc = "Pending"
    /\ ~ sem_locked(sem)
    /\ enter(t)
    /\ UNCHANGED << size, lines, fs, spc, page, main_bar, log, last >>

\* session.get returned: lines 117-133 up to `await aiofiles.open(...)`.
\* Path(output_folder, None) raises TypeError before the open is issued.
GetOk(t) ==
    /\ task[t].pc = "Getting"
    /\ \E d \in Dispositions(task[t].url), cl \in ContentLengths(task[t].url) :
          LET fname == resolve_filename(task[t].url, d)
              fsize == resolve_file_size(cl)
          IN task' = [ task EXCEPT ![t].dispo = d,
                                   ![t].filename = fname,
                                   ![t].file_size = IF fname = None THEN None ELSE fsize,
                                   ![t].pc = IF fname = None THEN "Closing" ELSE "Opening",
                                   ![t].exc = IF fname = None THEN Some("TypeError") ELSE None ]
    /\ UNCHANGED << sem, size, lines, fs, spc, page, main_bar, log, last >>

\* session.get raised ClientError or asyncio.TimeoutError
GetFail(t) ==
    /\ task[t].pc = "Getting"
    /\ task' = [ task EXCEPT ![t].pc = "Closing", ![t].exc = Some("ClientError") ]
    /\ UNCHANGED << sem, size, lines, fs, spc, page, main_bar, log, last >>

\* aiofiles.open returned: lines 135-142 up to the first chunk's await
OpenOk(t) ==
    /\ task[t].pc = "Opening"
    /\ LET got == sub_bar_enter(lines, t)
       IN /\ lines' = got.lines
          /\ task' = [ task EXCEPT ![t].slot = got.slot, ![t].fd = Some(got.fd),
                                   ![t].bar = "started", ![t].pc = "Streaming" ]
    /\ fs' = file_open(fs, Path(OUTPUT_FOLDER, Val(task[t].filename)))
    /\ UNCHANGED << sem, size, spc, page, main_bar, log, last >>

\* aiofiles.open raised OSError
OpenFail(t) ==
    /\ task[t].pc = "Opening"
    /\ task' = [ task EXCEPT ![t].pc = "Closing", ![t].exc = Some("OSError") ]
    /\ UNCHANGED << sem, size, lines, fs, spc, page, main_bar, log, last >>

\* iter_chunks yielded a chunk: lines 143-146 up to `await output_file.write`.
\* A ValueError of update leaves the with-block through install_sub_bar,
\* which frees nothing.
Chunk(t) ==
    /\ task[t].pc = "Streaming"
    /\ \E n \in ChunkLens(task[t].url, Sum(task[t].recv)) :
          LET arg == update_arg(task[t].currval, n)
              res == IF size_known(task[t].file_size)
                     THEN bar_update(Val(task[t].file_size), task[t].currval, arg)
                     ELSE [ currval |-> task[t].currval, exc |-> None ]
          IN task' = [ task EXCEPT ![t].recv = Append(@, n),
                                   ![t].upd = IF size_known(task[t].file_size) THEN Some(arg) ELSE @,
                                   ![t].currval = res.currval,
                                   ![t].exc = res.exc,
                                   ![t].pc = IF res.exc = None THEN "Writing" ELSE "Closing" ]
    /\ UNCHANGED << sem, size, lines, fs, spc, page, main_bar, log, last >>

\* output_file.write returned
WriteOk(t) ==
    /\ task[t].pc = "Writing"
    /\ LET path == Path(OUTPUT_FOLDER, Val(task[t].filename))
           n == task[t].recv[Len(task[t].recv)]
           bytes == ChunkBytes(t, Sum(task[t].recv) - n, n)
       IN /\ fs' = [ fs EXCEPT ![path] = file_write(@, task[t].pos, bytes) ]
          /\ task' = [ task EXCEPT ![t].pos = @ + n, ![t].pc = "Streaming" ]
    /\ UNCHANGED << sem, size, lines, spc, page, main_bar, log, last >>

\* output_file.write raised OSError: nothing of the chunk is written
WriteFail(t) ==
    /\ task[t].pc = "Writing"
    /\ task' = [ task EXCEPT ![t].pc = "Closing", ![t].exc = Some("OSError") ]
    /\ UNCHANGED << sem, size, lines, fs, spc, page, main_bar, log, last >>

\* the body ended: the with-block is left normally, install_sub_bar resumes
\* after its yield (finish, free the slot), then the file is closed
StreamEnd(t) ==
    /\ task[t].pc = "Streaming"
    /\ lines' = sub_bar_exit(lines, task[t].slot)
    /\ task' = [ task EXCEPT ![t].bar = "finished",
                             ![t].currval = bar_finish(task[t].file_size, @),
                             ![t].pc = "Closing" ]
    /\ UNCHANGED << sem, size, fs, spc, page, main_bar, log, last >>

\* iter_chunks raised ClientError or asyncio.TimeoutError
StreamFail(t) ==
    /\ task[t].pc = "Streaming"
    /\ task' = [ task EXCEPT ![t].pc = "Closing", ![t].exc = Some("ClientError") ]
    /\ UNCHANGED << sem, size, lines, fs, spc, page, main_bar, log, last >>

\* what the except clauses of download_file log (lines 147-150)
error_log(t, exc) ==
    IF exc = Some("ClientError") THEN { << "Could not download file", task[t].url >> }
    ELSE IF exc = Some("OSError") THEN { << "Could not write file" >> }
    ELSE { }

\* (mutant) download_file without its `except OSError` clause
outcome_oserror_escapes(exc) ==
    IF exc = None THEN "Completed"
    ELSE IF exc = Some("ClientError") THEN "Failed"
    ELSE "Raised"

\* how download_file ends for the exception in flight
outcome(exc) ==
    IF exc = None THEN "Completed"
    ELSE IF exc \in { Some("ClientError"), Some("OSError") } THEN "Failed"
    ELSE "Raised"

\* (mutant) the semaphore is released on a normal return only
wrapper_exit_no_finally(v, exc) == IF exc = None THEN sem_release(v) ELSE v

\* wrapper: leaving `async with sem`, whatever func did (lines 103-104)
wrapper_exit(v, exc) == sem_release(v)

\* the file and the session are closed, the except clauses run,
\* `async with sem` releases the semaphore and the call returns or raises:
\* its locals are gone, what stays is how it ended
Close(t) ==
    /\ task[t].pc = "Closing"
    /\ task' = [ task EXCEPT ![t] = [ NewTask(task[t].url, outcome(task[t].exc))
                                        EXCEPT !.exc = task[t].exc ] ]
    /\ log' = log \cup error_log(t, task[t].exc)
    /\ sem' = wrapper_exit(sem, task[t].exc)
    /\ UNCHANGED << size, lines, fs, spc, page, main_bar, last >>

TaskStep(t) ==
    \/ GetOk(t) \/ GetFail(t)
    \/ OpenOk(t) \/ OpenFail(t)
    \/ Chunk(t) \/ WriteOk(t) \/ WriteFail(t)
    \/ StreamEnd(t) \/ StreamFail(t)
    \/ Close(t)

\* ----------------------------------------------------------------- scrape
\* the hrefs a listing page may hold
HREFS ==
    { << "a", ".zip" >>, << "100MB", "-1", ".zip" >>, << "200MB", ".zip" >>,
      << "100MB", ".txt" >>, << "100MB", "-2", ".zip" >> }

RECURSIVE SeqsUpTo(_, _)
SeqsUpTo(S, n) ==
    IF n = 0 THEN { << >> }
    ELSE LET shorter == SeqsUpTo(S, n - 1)
         IN shorter \cup { Append(q, x) : q \in shorter, x \in S }

Pages == SeqsUpTo(HREFS, MaxLinks)

\* (mutant) the selection without its ".zip" filter
targets_any_suffix(hrefs) ==
    LET is_100MB(h) == startswith(h, "100MB")
    IN SelectSeq(hrefs, is_100MB)

\* lines 188-193 without the final [0]: the hrefs ending in ".zip" that
\* start with "100MB", in page order
targets(hrefs) ==
    LET is_zip(h) == endswith(h, ".zip")
        is_100MB(h) == startswith(h, "100MB")
    IN SelectSeq(SelectSeq(hrefs, is_zip), is_100MB)

\* `await download_file(url, folder)` up to its first suspension: the
\* semaphore is taken at once when a ticket is left
launch(t, u) ==
    IF sem_locked(sem)
    THEN /\ task' = [ task EXCEPT ![t] = NewTask(u, "Pending") ]
         /\ sem' = sem
    ELSE /\ task' = [ task EXCEPT ![t] = NewTask(u, "Getting") ]
         /\ sem' = sem_acquire(sem)

\* the final status of the listing request: redirects with a Location are
\* followed by the session, a 304 (or a 3xx without Location) is handed back
STATUSES == { 200, 304, 404 }

\* how session.get ends: by an exception, or with a response of some status
FetchResults ==
    { [ op |-> "fetch", exc |-> Some(e), status |-> None ] :
          e \in { "ClientError", "TimeoutError" } }
    \cup { [ op |-> "fetch", exc |-> None, status |-> Some(c) ] : c \in STATUSES }

\* resp.raise_for_status(): raises ClientResponseError, a ClientError, for a
\* status of 400 and above, and nothing below
raise_for_status(status) == status >= 400

\* fetch raises: session.get did, or raise_for_status does
fetch_raises(r) ==
    IF r.exc # None THEN TRUE ELSE raise_for_status(Val(r.status))

\* the hrefs of the body that comes with a status (a 304 has no body)
PagesOf(status) == IF status = 200 THEN Pages ELSE { << >> }

\* fetch raised ClientError (from the connection or from raise_for_status)
\* or asyncio.TimeoutError: logged, scrape returns
FetchFail ==
    /\ spc = "fetching"
    /\ \E r \in FetchResults :
          /\ fetch_raises(r)
          /\ last' = Some(r)
    /\ log' = log \cup { << "Could not fetch page" >> }
    /\ spc' = "returned"
    /\ UNCHANGED << sem, size, lines, task, fs, page, main_bar >>

\* fetch returned the page: lines 184-199 up to the download's first
\* suspension.  list(...)[0] of an empty list raises IndexError, which
\* nothing in scrape catches.
FetchOk ==
    /\ spc = "fetching"
    /\ \E r \in FetchResults :
       /\ ~ fetch_raises(r)
       /\ last' = Some(r)
       /\ \E hrefs \in PagesOf(Val(r.status)) :
          /\ page' = Some(hrefs)
          /\ IF targets(hrefs) = << >>
             THEN /\ spc' = "raised"
                  /\ UNCHANGED << sem, task, main_bar >>
             ELSE /\ spc' = "downloading"
                  /\ main_bar' = [ state |-> "started", fd |-> Some(MAIN_COORDS),
                                   maxval |-> 1, currval |-> 0 ]
                  /\ launch(1, URL \o targets(hrefs)[1])
    /\ UNCHANGED << size, lines, fs, log >>

\* the download_file calls the orchestrator awaits: scrape awaits the one
\* it launched, Spec all of its calls
Launched == { t \in Tasks : task[t].pc # "NotCreated" }

\* download_file returned: install_main resumes after its yield (finish);
\* or it raised: the exception leaves install_main and scrape
Resume ==
    /\ spc = "downloading"
    /\ Launched # { }
    /\ \A t \in Launched : task[t].pc \in Terminal
    /\ IF \E t \in Launched : task[t].pc = "Raised"
       THEN /\ spc' = "raised"
            /\ UNCHANGED main_bar
       ELSE /\ spc' = "returned"
            /\ main_bar' = [ main_bar EXCEPT !.state = "finished",
                                             !.currval = bar_finish(Some(main_bar.maxval), @) ]
    /\ UNCHANGED << sem, size, lines, task, fs, page, log, last >>

NoBar == [ state |-> "none", fd |-> None, maxval |-> 0, currval |-> 0 ]

\* ------------------------------------------------------------------- Spec
\* NumTasks download_file calls launched together inside install_main, each
\* for a url of its own, the limiter and the pool built with every size up
\* to NumTasks
Init ==
    /\ size \in 1..NumTasks
    /\ sem = size
    /\ lines \in { NewLines(Some(n)) : n \in 1..NumTasks }
    /\ task = [ t \in Tasks |-> NewTask(TaskUrl(t), "Pending") ]
    /\ fs = << >>
    /\ spc = "downloading"
    /\ page = None
    /\ main_bar = [ state |-> "started", fd |-> Some(MAIN_COORDS),
                    maxval |-> NumTasks, currval |-> 0 ]
    /\ log = { }
    /\ last = None

Next ==
    \/ \E t \in Tasks : Acquire(t) \/ TaskStep(t)
    \/ Resume

Spec == Init /\ [][Next]_vars

\* the event loop runs every coroutine that is ready, and every request the
\* calls wait on answers or fails: no enabled step is put off forever
Fairness ==
    /\ \A t \in Tasks : WF_vars(Acquire(t)) /\ WF_vars(TaskStep(t))
    /\ WF_vars(Resume)

SpecFair == Init /\ [][Next]_vars /\ Fairness

\* the same calls, all for one url: every call resolves the same destination
InitSame ==
    /\ size \in 1..NumTasks
    /\ sem = size
    /\ lines \in { NewLines(Some(n)) : n \in 1..NumTasks }
    /\ task = [ t \in Tasks |-> NewTask(TaskUrl(1), "Pending") ]
    /\ fs = << >>
    /\ spc = "downloading"
    /\ page = None
    /\ main_bar = [ state |-> "started", fd |-> Some(MAIN_COORDS),
                    maxval |-> NumTasks, currval |-> 0 ]
    /\ log = { }
    /\ last = None

SpecSame == InitSame /\ [][Next]_vars

\* ------------------------------------------------------------- SpecScrape
\* main(): the pool with its default lines, the limiter of size 10, and
\* scrape() waiting for the listing page.  The one download scrape launches
\* finds the semaphore free (launch), so no call ever waits for it here.
InitScrape ==
    /\ size = CONCURRENCY
    /\ sem = size
    /\ lines = NewLines(None)
    /\ task = [ t \in Tasks |-> NewTask(<< >>, "NotCreated") ]
    /\ fs = << >>
    /\ spc = "fetching"
    /\ page = None
    /\ main_bar = NoBar
    /\ log = { }
    /\ last = None

NextScrape ==
    \/ FetchFail
    \/ FetchOk
    \/ Resume
    \/ \E t \in Tasks : TaskStep(t)

SpecScrape == InitScrape /\ [][NextScrape]_vars

\* --------------------------------------------------------------- SpecPool
\* direct calls on a ProgressBarManager: install_sub_bar's entry for a bar,
\* and _free_slot with any index
PoolAlloc(b) ==
    /\ LET got == sub_bar_enter(lines, b)
       IN /\ lines' = got.lines
          /\ last' = Some([ op |-> "alloc", arg |-> b, res |-> got.slot,
                            before |-> lines, exc |-> None ])
    /\ UNCHANGED << sem, size, task, fs, spc, page, main_bar, log >>

PoolFree(idx) ==
    /\ LET got == free_slot(lines, idx)
       IN /\ lines' = got.lines
          /\ last' = Some([ op |-> "free", arg |-> idx, res |-> None,
                            before |-> lines, exc |-> got.exc ])
    /\ UNCHANGED << sem, size, task, fs, spc, page, main_bar, log >>

InitPool ==
    /\ size = CONCURRENCY
    /\ sem = size
    /\ lines \in { NewLines(Some(n)) : n \in 1..MaxPool }
    /\ task = [ t \in Tasks |-> NewTask(<< >>, "NotCreated") ]
    /\ fs = << >>
    /\ spc = "idle"
    /\ page = None
    /\ main_bar = NoBar
    /\ log = { }
    /\ last = None

NextPool ==
    \/ \E b \in Tasks : PoolAlloc(b)
    \/ \E idx \in (0 - MaxPool - 1)..MaxPool : PoolFree(idx)

SpecPool == InitPool /\ [][NextPool]_vars

\* ================================================================ claims
Inside(t) == task[t].pc \in { "Getting", "Opening", "Streaming", "Writing", "Closing" }
InsideSet == { t \in Tasks : Inside(t) }
Ended(t) == task[t].pc \in Terminal
BarActive(t) == task[t].bar = "started"
TaskPath(t) == Path(OUTPUT_FOLDER, Val(task[t].filename))

\* C1: at most `size` download_file calls are inside the semaphore-guarded
\* body in any reachable state, whatever the number of calls launched; so a
\* call beyond the first `size` enters only once an earlier one has left.
C1_AtMostB == Cardinality(InsideSet) <= size

\* C1 witness: the limiter is exhausted while another call waits for it
C1_Witness ==
    /\ Cardinality(InsideSet) = size
    /\ \E t \in Tasks : task[t].pc = "Pending"

\* C2: the tickets outstanding are exactly those of the calls inside the
\* body (one acquire, one release per call, on every exit path), they stay
\* within 0..size, and none is outstanding once every call has ended.
C2_TicketsBalanced ==
    /\ sem \in 0..size
    /\ size - sem = Cardinality(InsideSet)
    /\ (\A t \in Tasks : Ended(t)) => sem = size

\* C2 witness: every call has ended, one by an escaped exception, one by a
\* caught failure or a normal return
C2_Witness ==
    /\ \A t \in Tasks : Ended(t)
    /\ \E t \in Tasks : task[t].pc = "Raised"
    /\ \E t \in Tasks : task[t].pc = "Failed"

\* C3 (as claimed): no pool line is still held by the bar of a call that has
\* ended Completed or Failed.
C3_NoSlotOfEndedTask ==
    \A i \in DOMAIN lines :
        lines[i] # None => task[Val(lines[i])].pc \notin { "Completed", "Failed" }

\* C4: no slot index is held by two active renderers, the pool records the
\* holder of each held slot, the renderer of slot i writes at
\* (base.column + 4, base.row + 1 + i), and active renderers that write to
\* the terminal (the main one included) write at distinct coordinates.
C4_DistinctCoordinates ==
    /\ \A t \in Tasks : (BarActive(t) /\ task[t].slot # None) =>
          /\ Val(task[t].slot) \in DOMAIN lines
          /\ lines[Val(task[t].slot)] = Some(t)
          /\ task[t].fd = Some(<< MAIN_COORDS[1] + 4, MAIN_COORDS[2] + 1 + Val(task[t].slot) >>)
    /\ \A t, u \in Tasks : (t # u /\ BarActive(t) /\ BarActive(u)) =>
          /\ (task[t].slot # None => task[t].slot # task[u].slot)
          /\ (task[t].fd # Some(DEVNULL) => task[t].fd # task[u].fd)
    /\ \A t \in Tasks : (BarActive(t) /\ main_bar.state = "started") =>
          task[t].fd # main_bar.fd

\* C4 witness: two sub renderers and the main renderer are active at once,
\* each sub renderer on a line of the pool
C4_Witness ==
    /\ main_bar.state = "started"
    /\ \E t, u \in Tasks :
          /\ t # u
          /\ BarActive(t) /\ BarActive(u)
          /\ task[t].slot # None /\ task[u].slot # None

\* C5: an allocation returns the lowest index whose line was free and marks
\* that line, or returns None and changes nothing when every line was held.
C5_LowestFreeIndex ==
    (last # None /\ Val(last).op = "alloc") =>
        LET c == Val(last)
            free == { i \in DOMAIN c.before : c.before[i] = None }
        IN IF free = { }
           THEN c.res = None /\ lines = c.before
           ELSE /\ c.res # None
                /\ Val(c.res) \in free
                /\ \A j \in free : Val(c.res) <= j
                /\ lines = [ c.before EXCEPT ![Val(c.res)] = Some(c.arg) ]

\* C5 witness: with lines 0 and 2 held and line 1 freed, the allocation
\* returned 1
C5_Witness ==
    /\ last # None
    /\ Val(last).op = "alloc"
    /\ Cardinality(DOMAIN lines) >= 3
    /\ Val(last).before[0] # None
    /\ Val(last).before[1] = None
    /\ Val(last).before[2] # None
    /\ Val(last).res = Some(1)

\* C6 (as claimed): freeing an index that is out of range for the pool, or
\* whose line is already free, raises and leaves the pool unchanged.
C6_FreeRejectsBadIndex ==
    (last # None /\ Val(last).op = "free") =>
        LET c == Val(last)
            bad == c.arg \notin DOMAIN c.before \/ c.before[c.arg] = None
        IN bad => (c.exc # None /\ lines = c.before)

\* C7: when the body stream raised a network error after at least one
\* chunk, the call ends Failed (the error does not escape), the output file
\* holds exactly the bytes of the chunks received before the error, and the
\* ticket is back: the limiter is not exhausted, so a waiting call may
\* acquire.
C7_MidStreamFailure ==
    [][ \A t \in Tasks :
          ( /\ task[t].pc = "Closing"
            /\ task[t].exc = Some("ClientError")
            /\ task[t].recv # << >>
            /\ task'[t].pc # "Closing" ) =>
          ( /\ task'[t].pc = "Failed"
            /\ fs'[TaskPath(t)] = BodyPrefix(t, Sum(task[t].recv))
            /\ sem' = sem + 1
            /\ ~ sem_locked(sem') ) ]_vars

\* C7 witness: a call has ended Failed by a network error with bytes of its
\* body on disk, while another call still waits and the limiter has a ticket
C7_Witness ==
    \E t, u \in Tasks :
        /\ task[t].pc = "Failed"
        /\ task[t].exc = Some("ClientError")
        /\ \E p \in DOMAIN fs : fs[p] # << >> /\ fs[p][1] = Byte(t, 1)
        /\ task[u].pc = "Pending"
        /\ ~ sem_locked(sem)

\* C8 (as claimed): when no href of the page starts with "100MB", scrape
\* returns normally and no download call is created.
C8_NoMatchEndsNormally ==
    (page # None /\ ~ \E i \in 1..Len(Val(page)) : startswith(Val(page)[i], "100MB")) =>
        /\ spc = "returned"
        /\ \A t \in Tasks : task[t].pc = "NotCreated"

\* C9 (as claimed): once the response is in, the filename is the header's
\* filename parameter when there is one and the last path segment of the
\* url otherwise; no call fails for want of a filename.
C9_FilenameResolved ==
    \A t \in Tasks :
        ( \/ task[t].pc \in { "Opening", "Streaming", "Writing" }
          \/ task[t].exc = Some("TypeError") ) =>
        LET param == IF task[t].dispo = None THEN None
                     ELSE params_get(parse_header_params(Val(task[t].dispo)), "filename")
        IN /\ task[t].filename = (IF param # None THEN param ELSE Some(basename(task[t].url)))
           /\ task[t].exc # Some("TypeError")

\* C10 (as claimed): with a known total no value above the total is handed
\* to update, and no call ends by the ValueError of an update.
C10_ClampedToTotal ==
    \A t \in Tasks :
        /\ (task[t].upd # None /\ size_known(task[t].file_size)) =>
              Val(task[t].upd) <= Val(task[t].file_size)
        /\ task[t].exc # Some("ValueError")

\* C11: a ClientError or an OSError raised at any step of one call (the GET,
\* the open, a chunk read, a chunk write) is caught in download_file: the
\* step that raises it and the step that handles it leave every sibling
\* call, every file and the orchestrator as they were, the call ends Failed,
\* and the orchestrator ends by an exception only when a call ended by one.
Caught == { Some("ClientError"), Some("OSError") }
C11_FailureContained ==
    [][ /\ \A t \in Tasks :
            ( \/ (task[t].pc # "Closing" /\ task'[t].pc = "Closing" /\ task'[t].exc \in Caught)
              \/ (task[t].pc = "Closing" /\ task[t].exc \in Caught /\ task'[t].pc # "Closing") ) =>
            ( /\ task'[t].pc \in { "Closing", "Failed" }
              /\ \A u \in Tasks \ { t } : task'[u] = task[u]
              /\ fs' = fs
              /\ spc' = spc )
        /\ (spc = "downloading" /\ spc' # spc /\ \A t \in Tasks : task[t].pc # "Raised") =>
              spc' = "returned" ]_vars

\* C11 witness: the run ended normally with one call Failed and a sibling
\* Completed, the sibling's file holding its bytes
C11_Witness ==
    /\ spc = "returned"
    /\ \E t, u \in Tasks :
          /\ task[t].pc = "Failed"
          /\ task[u].pc = "Completed"
          /\ \E p \in DOMAIN fs : fs[p] # << >> /\ fs[p][1] = Byte(u, 1)

\* C12: every call waiting at the limiter eventually gets its ticket and
\* ends Completed or Failed.
C12_WaiterEndsCompletedOrFailed ==
    \A t \in Tasks :
        (task[t].pc = "Pending" /\ sem_locked(sem)) ~>
            (task[t].pc \in { "Completed", "Failed" })

\* C13: a call is held back at the limiter only in states where `size` calls
\* are inside; so when no more calls are launched than the limiter has
\* tickets, no call is ever held back: each gets its ticket at its first step.
C13_WaitsOnlyWhenFull ==
    /\ \A t \in Tasks :
          (task[t].pc = "Pending" /\ sem_locked(sem)) => Cardinality(InsideSet) = size
    /\ size >= NumTasks =>
          \A t \in Tasks : task[t].pc = "Pending" => ~sem_locked(sem)

\* C13 witness: as many tickets as calls, and every call is inside at once
C13_Witness ==
    /\ size >= NumTasks
    /\ \A t \in Tasks : Inside(t)
    /\ sem = size - NumTasks

\* C14: when the fetch of the listing page fails (a network error, a
\* timeout, a status outside 200..299), scrape logs the failure and returns
\* without raising: no download_file call was made, no ticket was taken and
\* no line of the pool is in use.
FetchFailed ==
    /\ last # None
    /\ Val(last).op = "fetch"
    /\ IF Val(last).exc # None THEN TRUE
       ELSE Val(Val(last).status) \notin 200..299
C14_FetchFailureReturns ==
    FetchFailed =>
        /\ spc = "returned"
        /\ << "Could not fetch page" >> \in log
        /\ \A t \in Tasks : task[t].pc = "NotCreated"
        /\ sem = size
        /\ \A i \in DOMAIN lines : lines[i] = None

\* C15: a call whose response has no Content-Length never calls update on
\* its bar (the byte count stays 0 while the body streams) and never raises;
\* after every completed write, and when the body has ended, its file is
\* the chunks received so far, in order; and when the body has ended it
\* ends Completed.
NoLength(r) ==
    /\ r.pc \in { "Streaming", "Writing", "Closing" }
    /\ r.filename # None
    /\ r.file_size = None
C15_NoLengthStillCompletes ==
    [][ \A t \in Tasks :
          LET a == task[t]
              b == task'[t]
              whole(r) == r.pc = "Streaming" \/ (r.pc = "Closing" /\ r.exc = None)
          IN /\ NoLength(b) =>
                  /\ b.upd = None
                  /\ b.bar = "started" => b.currval = 0
                  /\ b.exc \notin { Some("ValueError"), Some("TypeError") }
                  /\ whole(b) =>
                        fs'[Path(OUTPUT_FOLDER, Val(b.filename))] = BodyPrefix(t, Sum(b.recv))
             /\ (NoLength(a) /\ a.pc = "Closing" /\ a.exc = None /\ b.pc # "Closing") =>
                  /\ b.pc = "Completed"
                  /\ fs'[Path(OUTPUT_FOLDER, Val(a.filename))] = BodyPrefix(t, Sum(a.recv)) ]_vars

\* C15 witness: a body of two chunks without Content-Length has ended, no
\* update was made and the call is about to return
C15_Witness ==
    \E t \in Tasks :
        /\ NoLength(task[t])
        /\ task[t].pc = "Closing"
        /\ task[t].exc = None
        /\ Len(task[t].recv) = 2
        /\ task[t].upd = None
        /\ fs[TaskPath(t)] = << Byte(t, 1), Byte(t, 2) >>

\* C16: no two calls have the same destination path open for writing at the
\* same time, and no file holds bytes of two different calls.
FileOpen(t) == task[t].pc \in { "Streaming", "Writing" }
C16_ExclusiveDestination ==
    /\ \A t, u \in Tasks :
          (t # u /\ FileOpen(t) /\ FileOpen(u)) => TaskPath(t) # TaskPath(u)
    /\ \A p \in DOMAIN fs :
          \A i, j \in 1..Len(fs[p]) : fs[p][i][1] = fs[p][j][1]

\* the first href of the page that satisfies Want, as a sequence of at most
\* one href
FirstHref(hrefs, Want(_)) ==
    LET hits == { i \in 1..Len(hrefs) : Want(hrefs[i]) }
    IN IF hits = { } THEN << >>
       ELSE << hrefs[CHOOSE i \in hits : \A j \in hits : i <= j] >>
HasPrefix(h) == startswith(h, "100MB")
ZipWithPrefix(h) == endswith(h, ".zip") /\ startswith(h, "100MB")

\* C17 as stated: the call scrape launches is for the first href of the page
\* that begins with "100MB", and it is the only call.
C17_FirstPrefixedHref ==
    \A t \in Tasks :
        task[t].pc # "NotCreated" =>
            /\ t = 1
            /\ page # None
            /\ FirstHref(Val(page), HasPrefix) = << SubSeq(task[t].url, Len(URL) + 1, Len(task[t].url)) >>

\* C17 amended: of a page that lists an href ending in ".zip" and beginning
\* with "100MB", scrape selects the first such href and launches exactly one
\* call, for it; hrefs with the prefix but another suffix are passed over.
C17_FirstPrefixedZipHref ==
    /\ \A t \in Tasks :
          task[t].pc # "NotCreated" =>
              /\ t = 1
              /\ page # None
              /\ FirstHref(Val(page), ZipWithPrefix) =
                    << SubSeq(task[t].url, Len(URL) + 1, Len(task[t].url)) >>
    /\ (page # None /\ FirstHref(Val(page), ZipWithPrefix) # << >>) =>
          task[1].pc # "NotCreated"

\* C17 witness: of a.zip, 100MB-1.zip, 200MB.zip the call is for 100MB-1.zip
C17_Witness ==
    /\ page = Some(<< << "a", ".zip" >>, << "100MB", "-1", ".zip" >>, << "200MB", ".zip" >> >>)
    /\ task[1].pc = "Completed"
    /\ task[1].url = URL \o << "100MB", "-1", ".zip" >>
    /\ \A t \in Tasks \ { 1 } : task[t].pc = "NotCreated"

\* C18: a call that enters install_sub_bar while every line of the pool is
\* occupied gets no slot and /dev/null as its bar's writer, and the pool is
\* as it was; no step of such a call, its last included, changes the pool;
\* its bar never has a terminal coordinate; and once its body has ended it
\* ends Completed with the whole body in its file.
PoolFull(ls) == \A i \in DOMAIN ls : ls[i] # None
C18_OverflowLeavesPool ==
    [][ \A t \in Tasks :
          LET a == task[t]
              b == task'[t]
          IN /\ (a.pc = "Opening" /\ b.pc = "Streaming" /\ PoolFull(lines)) =>
                  (lines' = lines /\ b.slot = None /\ b.fd = Some(DEVNULL))
             /\ (b.bar # "none" /\ b.slot = None) => b.fd = Some(DEVNULL)
             /\ (a.bar = "started" /\ a.slot = None /\ b # a) => lines' = lines
             /\ (a.bar = "finished" /\ a.slot = None /\ a.pc = "Closing" /\ b # a) =>
                  /\ lines' = lines
                  /\ b.pc = "Completed"
                  /\ fs'[Path(OUTPUT_FOLDER, Val(a.filename))] = BodyPrefix(t, Sum(a.recv)) ]_vars

\* C18 witness: with every line still occupied, a call that got no slot has
\* streamed its body to the end and is about to return
C18_Witness ==
    \E t \in Tasks :
        /\ PoolFull(lines)
        /\ task[t].pc = "Closing"
        /\ task[t].exc = None
        /\ task[t].bar = "finished"
        /\ task[t].slot = None
        /\ task[t].fd = Some(DEVNULL)
        /\ task[t].recv # << >>
        /\ \A i \in DOMAIN lines : Val(lines[i]) # t

\* C19: every occupied line of the pool belongs to a call that holds a
\* ticket, so the occupied lines never outnumber the tickets outstanding;
\* and with at least as many lines as tickets no call ever runs without a
\* line.
C19_SlotsWithinTickets ==
    /\ \A i \in DOMAIN lines : lines[i] # None => Inside(Val(lines[i]))
    /\ Cardinality({ i \in DOMAIN lines : lines[i] # None }) <= size - sem
    /\ Cardinality(DOMAIN lines) >= size =>
          \A t \in Tasks : task[t].bar # "none" => task[t].slot # None

\* C20: once scrape has ended, the value its main bar shows is the number of
\* calls that ended Completed.
C20_MainBarCountsCompleted ==
    (spc \in { "returned", "raised" } /\ main_bar.state # "none") =>
        main_bar.currval = Cardinality({ t \in Tasks : task[t].pc = "Completed" })

====
